---------------------------- MODULE Spec2Model ----------------------------
(***************************************************************************)
(* Model of aws-grok.py: the interactive tail of main() (the part after    *)
(* the profile was selected) and sso_device_flow_login(), the AWS SSO      *)
(* device-authorization login (register client, start device               *)
(* authorization, poll create_token, get role credentials, verify).        *)
(*                                                                         *)
(* The issuer (sso-oidc / sso / sts) is the environment: each call either  *)
(* answers or raises botocore ClientError, and every field of an answer    *)
(* is chosen by the issuer.  Time is counted in whole seconds since        *)
(* `start = time.time()` (line 185).                                       *)
(***************************************************************************)
EXTENDS Integers, Sequences, FiniteSets, TLC

\* ------------------------------------------------------------------ bounds
\* at most this many create_token requests are explored in one attempt
MaxPolls == 4
\* a create_token round trip takes 0..MaxLatency seconds
MaxLatency == 1

\* ------------------------------------------------------- program constants
\* dev.get("interval", 5)
DefaultInterval == 5
\* dev.get("expiresIn", 600)
DefaultExpiresIn == 600
\* interval = min(interval + 5, 60)
SlowDownStep == 5
IntervalCap == 60

\* ------------------------------------------------------------ python values
\* Python's None (also: key absent from a dict, for dict.get)
NoValue == "None"

\* mutant of Truthy: only None counts as missing, the empty string does not
TruthyNotNone(v) == v /= NoValue

\* bool(v) of an Optional[str]
Truthy(v) == v /= NoValue /\ v /= ""

\* a or b
PyOr(a, b) == IF Truthy(a) THEN a ELSE b

\* d.get(k, default) on an issuer response (a record holding the keys present)
Get(d, k, default) == IF k \in DOMAIN d THEN d[k] ELSE default

Min(a, b) == IF a <= b THEN a ELSE b

\* ------------------------------------------------------------- input spaces
\* a value of a key of the profile section: absent, empty, or set
ConfValues == {NoValue, "", "v"}
ConfKeys == {"sso_start_url", "sso_starturl", "sso_region", "sso_account_id",
             "sso_account", "sso_role_name", "role_name", "region"}
ProfileConfs == [ConfKeys -> ConfValues]

\* answers of register_client
ClientRegistrations == {[clientId |-> "cidA", clientSecret |-> "secA"],
                        [clientId |-> "cidB", clientSecret |-> "secB"]}

\* answers of start_device_authorization; interval and expiresIn may be absent
IssuerIntervals == {0, 5, 58, 65}
IssuerExpiresIn == {8, 20}
DeviceCodes == {"devA", "devB"}
DeviceAuthorizations ==
       {[deviceCode |-> d, interval |-> i, expiresIn |-> e] :
            d \in DeviceCodes, i \in IssuerIntervals, e \in IssuerExpiresIn}
  \cup {[deviceCode |-> d, expiresIn |-> e] : d \in DeviceCodes, e \in IssuerExpiresIn}
  \cup {[deviceCode |-> d, interval |-> i] : d \in DeviceCodes, i \in IssuerIntervals}

\* answers of create_token: resp.get("accessToken")
AccessTokens == {NoValue, "", "tokA", "tokB"}
\* ClientError codes of create_token
PendingCode == "AuthorizationPendingException"
SlowDownCode == "SlowDownException"
OtherCodes == {"ExpiredTokenException", "AccessDeniedException", NoValue}

\* answers of get_role_credentials
RoleCredentials == {[accessKeyId |-> "akA", secretAccessKey |-> "skA", sessionToken |-> "stA"],
                    [accessKeyId |-> "akB", secretAccessKey |-> "skB", sessionToken |-> "stB"]}

Latencies == 0..MaxLatency

\* Optional[Dict] None: the value sso_device_flow_login returns on failure
NoDict == [none |-> TRUE]

\* -------------------------------------------------------------------- state
VARIABLES
  pc,              \* position in main() / sso_device_flow_login()
  is_sso,          \* profile_is_sso(merged_conf)
  start_url, sso_region, account_id, role_name,   \* locals, lines 144-147
  conf_region,     \* profile_conf.get("region")
  client_id, client_secret,                       \* locals, lines 157-158
  device_code, interval, expires_in,              \* locals, lines 167-169
  token,           \* local token
  now,             \* time.time() - start, in seconds
  code,            \* code of the last ClientError of create_token
  extra,           \* the credentials dict built at lines 229-231
  result,          \* return value of sso_device_flow_login
  diag,            \* diagnostic printed by the returning branch
  exit_status,     \* the status main() returned: <<>> until it returns
  calls,           \* number of calls made, per boto3 / webbrowser operation
  issued,          \* what the issuer answered (clientId, clientSecret, deviceCode, accessToken)
  role_resp,       \* roleCredentials answered by get_role_credentials
  token_args,      \* arguments of the last create_token request
  role_args,       \* arguments of the get_role_credentials request
  initial_interval,\* interval as read at line 168
  sleeps, slept, sleeps_since_request,  \* time.sleep calls: count, total, since last request
  pendings, slow_downs,                 \* retryable answers handled so far
  failure,         \* which return None branch was taken
  browser_raised,  \* webbrowser.open raised
  ok,              \* local ok (line 233); FALSE until assigned
  answered,        \* outcome of the last create_token: NoValue, "token" or "ClientError"
  findup,          \* the run of findup.py main(): its arguments, the file system, its exit
  merge,           \* a call of resolve_sso_conf: its arguments and its result
  walk,            \* a call of _find_last_commit_for_file: arguments, locals, result
  ancestry         \* a call of _is_commit_ancestor: arguments, locals, result

locals == <<start_url, sso_region, account_id, role_name, conf_region, is_sso>>
oidc_locals == <<client_id, client_secret, device_code, interval, expires_in, initial_interval>>
poll_counts == <<sleeps, slept, sleeps_since_request, pendings, slow_downs, answered>>
grok_vars == <<pc, locals, oidc_locals, token, now, code, extra, result, diag, exit_status,
               calls, issued, role_resp, token_args, role_args, poll_counts, failure,
               browser_raised, ok>>
helper_vars == <<merge, walk, ancestry>>
vars == <<grok_vars, findup, helper_vars>>

Operations == {"register_client", "start_device_authorization", "create_token",
               "get_role_credentials", "get_caller_identity", "webbrowser_open",
               "codecommit"}

\* profile_is_sso: some key of the section starts with "sso_"
SsoKeys == {"sso_start_url", "sso_starturl", "sso_region", "sso_account_id", "sso_account",
            "sso_role_name"}
profile_is_sso(conf) == \E k \in SsoKeys : conf[k] /= NoValue

NoArgs == [clientId |-> NoValue, clientSecret |-> NoValue, deviceCode |-> NoValue]
NoRoleArgs == [accountId |-> NoValue, roleName |-> NoValue, accessToken |-> NoValue]

\* findup.py is a separate program: it is not run while aws-grok runs
FindupNotRun == [pc |-> "not_run"]

\* resolve_sso_conf and the CodeCommit helpers are followed on their own; while
\* main() and the device flow are followed no call of them is
HelperNotRun == [pc |-> "not_run"]
HelpersNotRun == merge = HelperNotRun /\ walk = HelperNotRun /\ ancestry = HelperNotRun

\* main() has selected a profile (line 519); the locals of lines 144-147 are
\* what sso_device_flow_login reads from the merged section.
\* the locals of sso_device_flow_login before its first statement has run
FlowNotStarted ==
  /\ client_id = NoValue /\ client_secret = NoValue /\ device_code = NoValue
  /\ interval = 0 /\ expires_in = 0 /\ initial_interval = 0
  /\ token = NoValue /\ now = 0 /\ code = NoValue
  /\ extra = NoDict /\ result = NoDict /\ diag = NoValue /\ exit_status = <<>>
  /\ calls = [op \in Operations |-> 0]
  /\ issued = [clientId |-> NoValue, clientSecret |-> NoValue, deviceCode |-> NoValue,
               accessToken |-> NoValue]
  /\ role_resp = NoDict
  /\ token_args = NoArgs /\ role_args = NoRoleArgs
  /\ sleeps = 0 /\ slept = 0 /\ sleeps_since_request = 0
  /\ pendings = 0 /\ slow_downs = 0
  /\ failure = NoValue
  /\ browser_raised = FALSE
  /\ ok = FALSE
  /\ answered = NoValue

Init ==
  /\ findup = FindupNotRun
  /\ HelpersNotRun
  /\ \E conf \in ProfileConfs :
       /\ is_sso = profile_is_sso(conf)
       /\ start_url = PyOr(conf["sso_start_url"], conf["sso_starturl"])
       /\ sso_region = conf["sso_region"]
       /\ account_id = PyOr(conf["sso_account_id"], conf["sso_account"])
       /\ role_name = PyOr(conf["sso_role_name"], conf["role_name"])
       /\ conf_region = conf["region"]
  /\ pc = "main"
  /\ FlowNotStarted

Called(op) == calls' = [calls EXCEPT ![op] = @ + 1]

\* ----------------------------------------------------------------- messages
MsgMissingConfig == "Missing required SSO configuration keys (sso_start_url, sso_region, sso_account_id, sso_role_name)."
MsgRegisterFailed == "Failed to register OIDC client:"
MsgStartFailed == "Failed to start device authorization:"
MsgTimedOut == "Device authorization timed out."
MsgTokenError == "Error creating token:"
MsgNoToken == "Failed to obtain SSO access token."
MsgRoleFailed == "Failed to get role credentials:"
MsgVerified == "SSO login and verification succeeded."
VerifyMessages == {"No credentials available for profile.", "AWS ClientError:",
                   "Unexpected error while verifying profile:"}

\* print(msg); return None
ReturnNone(msg, branch) ==
  /\ diag' = msg
  /\ result' = NoDict
  /\ failure' = branch
  /\ pc' = "login_returned"

\* ------------------------------------------------------------------- main()
\* lines 521-523: an SSO profile starts the device flow
MainStartLogin ==
  /\ pc = "main" /\ is_sso
  /\ pc' = "check_config"
  /\ UNCHANGED <<findup, helper_vars, locals, oidc_locals, token, now, code, extra, result, diag, exit_status,
                 calls, issued, role_resp, token_args, role_args, poll_counts, failure,
                 browser_raised, ok>>

\* lines 526-535: any other profile is only verified with sts
MainVerifyPlainProfile ==
  /\ pc = "main" /\ ~is_sso
  /\ Called("get_caller_identity")
  /\ \E verified \in BOOLEAN : exit_status' = IF verified THEN <<0>> ELSE <<1>>
  /\ pc' = "exit"
  /\ UNCHANGED <<findup, helper_vars, locals, oidc_locals, token, now, code, extra, result, diag,
                 issued, role_resp, token_args, role_args, poll_counts, failure,
                 browser_raised, ok>>

\* lines 524-525: if not creds: return 1
MainLoginFailed ==
  /\ pc = "login_returned" /\ result = NoDict
  /\ exit_status' = <<1>>
  /\ pc' = "exit"
  /\ UNCHANGED <<findup, helper_vars, locals, oidc_locals, token, now, code, extra, result, diag,
                 calls, issued, role_resp, token_args, role_args, poll_counts, failure,
                 browser_raised, ok>>

\* mutant of MainCodeCommit: codecommit is run whatever the login returned
MainCodeCommitUnchecked ==
  /\ pc = "login_returned"
  /\ Called("codecommit")
  /\ exit_status' = <<0>>
  /\ pc' = "exit"
  /\ UNCHANGED <<findup, helper_vars, locals, oidc_locals, token, now, code, extra, result, diag,
                 issued, role_resp, token_args, role_args, poll_counts, failure,
                 browser_raised, ok>>

\* lines 537-548: session from the credentials, codecommit(...), return 0
MainCodeCommit ==
  /\ pc = "login_returned" /\ result /= NoDict
  /\ Called("codecommit")
  /\ exit_status' = <<0>>
  /\ pc' = "exit"
  /\ UNCHANGED <<findup, helper_vars, locals, oidc_locals, token, now, code, extra, result, diag,
                 issued, role_resp, token_args, role_args, poll_counts, failure,
                 browser_raised, ok>>

\* ------------------------------------------------- sso_device_flow_login()
\* mutant of ConfigComplete: the role name is not checked
ConfigCompleteWithoutRole ==
  Truthy(start_url) /\ Truthy(sso_region) /\ Truthy(account_id)

\* line 149: start_url and sso_region and account_id and role_name
ConfigComplete ==
  Truthy(start_url) /\ Truthy(sso_region) /\ Truthy(account_id) /\ Truthy(role_name)

\* lines 149-151
LoginMissingConfig ==
  /\ pc = "check_config" /\ ~ConfigComplete
  /\ ReturnNone(MsgMissingConfig, "MissingConfiguration")
  /\ UNCHANGED <<findup, helper_vars, locals, oidc_locals, token, now, code, extra, exit_status,
                 calls, issued, role_resp, token_args, role_args, poll_counts,
                 browser_raised, ok>>

\* lines 153-158: register_client answered
RegisterClient ==
  /\ pc = "check_config" /\ ConfigComplete
  /\ Called("register_client")
  /\ \E reg \in ClientRegistrations :
       /\ client_id' = reg.clientId
       /\ client_secret' = reg.clientSecret
       /\ issued' = [issued EXCEPT !.clientId = reg.clientId,
                                   !.clientSecret = reg.clientSecret]
  /\ pc' = "start_auth"
  /\ UNCHANGED <<findup, helper_vars, locals, device_code, interval, expires_in, initial_interval, token, now,
                 code, extra, result, diag, exit_status, role_resp, token_args, role_args,
                 poll_counts, failure, browser_raised, ok>>

\* mutant of RegisterClientRejected: the message of the next step is printed
RegisterClientRejectedWrongMessage ==
  /\ pc = "check_config" /\ ConfigComplete
  /\ Called("register_client")
  /\ ReturnNone(MsgStartFailed, "RegistrationError")
  /\ UNCHANGED <<findup, helper_vars, locals, oidc_locals, token, now, code, extra, exit_status,
                 issued, role_resp, token_args, role_args, poll_counts, browser_raised, ok>>

\* lines 153-161: register_client raised ClientError
RegisterClientRejected ==
  /\ pc = "check_config" /\ ConfigComplete
  /\ Called("register_client")
  /\ ReturnNone(MsgRegisterFailed, "RegistrationError")
  /\ UNCHANGED <<findup, helper_vars, locals, oidc_locals, token, now, code, extra, exit_status,
                 issued, role_resp, token_args, role_args, poll_counts, browser_raised, ok>>

\* lines 163-169: start_device_authorization answered
StartDeviceAuthorization ==
  /\ pc = "start_auth"
  /\ Called("start_device_authorization")
  /\ \E dev \in DeviceAuthorizations :
       /\ device_code' = Get(dev, "deviceCode", NoValue)
       /\ interval' = Get(dev, "interval", DefaultInterval)
       /\ initial_interval' = Get(dev, "interval", DefaultInterval)
       /\ expires_in' = Get(dev, "expiresIn", DefaultExpiresIn)
       /\ issued' = [issued EXCEPT !.deviceCode = Get(dev, "deviceCode", NoValue)]
  /\ pc' = "present"
  /\ UNCHANGED <<findup, helper_vars, locals, client_id, client_secret, token, now, code, extra, result, diag,
                 exit_status, role_resp, token_args, role_args, poll_counts, failure,
                 browser_raised, ok>>

\* mutant of StartDeviceAuthorizationRejected: the flow registers again and retries
StartDeviceAuthorizationRejectedRetries ==
  /\ pc = "start_auth"
  /\ calls["start_device_authorization"] < MaxPolls
  /\ Called("start_device_authorization")
  /\ pc' = "check_config"
  /\ UNCHANGED <<findup, helper_vars, locals, oidc_locals, token, now, code, extra, result, diag,
                 exit_status, failure, issued, role_resp, token_args, role_args,
                 poll_counts, browser_raised, ok>>

\* lines 163-172: start_device_authorization raised ClientError
StartDeviceAuthorizationRejected ==
  /\ pc = "start_auth"
  /\ Called("start_device_authorization")
  /\ ReturnNone(MsgStartFailed, "AuthorizationStartError")
  /\ UNCHANGED <<findup, helper_vars, locals, oidc_locals, token, now, code, extra, exit_status,
                 issued, role_resp, token_args, role_args, poll_counts, browser_raised, ok>>

\* mutant of PresentToUser: an exception of webbrowser.open ends the attempt
PresentToUserFailing ==
  /\ pc = "present"
  /\ Called("webbrowser_open")
  /\ browser_raised' \in BOOLEAN
  /\ token' = NoValue
  /\ now' = 0
  /\ IF browser_raised'
       THEN ReturnNone(MsgStartFailed, "AuthorizationStartError")
       ELSE pc' = "poll" /\ UNCHANGED <<result, diag, failure>>
  /\ UNCHANGED <<findup, helper_vars, locals, oidc_locals, code, extra, exit_status,
                 issued, role_resp, token_args, role_args, poll_counts, ok>>

\* lines 174-185: print the URL and code, webbrowser.open (an exception is
\* swallowed), token = None, start = time.time()
PresentToUser ==
  /\ pc = "present"
  /\ Called("webbrowser_open")
  /\ browser_raised' \in BOOLEAN
  /\ token' = NoValue
  /\ now' = 0
  /\ pc' = "poll"
  /\ UNCHANGED <<findup, helper_vars, locals, oidc_locals, code, extra, result, diag, exit_status,
                 issued, role_resp, token_args, role_args, poll_counts, failure, ok>>

\* ---------------------------------------------------- the polling loop
ErrorCodes == {PendingCode, SlowDownCode} \cup OtherCodes

\* line 198: code in ("AuthorizationPendingException",)
IsAuthorizationPending(c) == c \in {PendingCode}

\* mutant of IsSlowDown: an expired device code is retried as well
IsSlowDownLoose(c) == c \in {SlowDownCode, "ExpiredTokenException"}

\* line 204: code in ("SlowDownException",)
IsSlowDown(c) == c \in {SlowDownCode}

\* mutant of TimedOut: the expiry is checked against the default, not the issuer's
TimedOutAtDefault(elapsed, expiry) == elapsed > DefaultExpiresIn

\* line 200: time.time() - start > expires_in
TimedOut(elapsed, expiry) == elapsed > expiry

\* line 205: min(interval + 5, 60)
NextInterval(i) == Min(i + SlowDownStep, IntervalCap)

\* mutant of CreateTokenArgs: the client id is passed as the device code
CreateTokenArgsSwapped(cid, secret, dcode) ==
  [clientId |-> cid, clientSecret |-> secret, deviceCode |-> cid]

\* lines 188-193: the keyword arguments of create_token
CreateTokenArgs(cid, secret, dcode) ==
  [clientId |-> cid, clientSecret |-> secret, deviceCode |-> dcode]

\* lines 188-193: one create_token request is sent
SendCreateToken ==
  /\ pc = "poll"
  /\ calls["create_token"] < MaxPolls
  /\ Called("create_token")
  /\ token_args' = CreateTokenArgs(client_id, client_secret, device_code)

\* lines 186-195: create_token answered; token = resp.get("accessToken"); break
PollTokenGranted ==
  /\ SendCreateToken
  /\ \E t \in AccessTokens, latency \in Latencies :
       /\ token' = t
       /\ answered' = "token"
       /\ issued' = [issued EXCEPT !.accessToken = t]
       /\ now' = now + latency
  /\ sleeps_since_request' = 0
  /\ pc' = "after_poll"
  /\ UNCHANGED <<findup, helper_vars, locals, oidc_locals, code, extra, result, diag, exit_status, role_resp,
                 role_args, sleeps, slept, pendings, slow_downs, failure, browser_raised, ok>>

\* mutant of PollAuthorizationPending: the retry falls back to the interval
\* first read from the issuer
PollAuthorizationPendingResetsInterval ==
  /\ SendCreateToken
  /\ interval' = initial_interval
  /\ \E c \in ErrorCodes, latency \in Latencies :
       /\ IsAuthorizationPending(c)
       /\ code' = c
       /\ answered' = "ClientError"
       /\ now' = now + latency + interval'
  /\ pendings' = pendings + 1
  /\ sleeps' = sleeps + 1
  /\ slept' = slept + interval'
  /\ sleeps_since_request' = 1
  /\ IF TimedOut(now', expires_in)
       THEN ReturnNone(MsgTimedOut, "AuthorizationTimeout")
       ELSE pc' = "poll" /\ UNCHANGED <<diag, result, failure>>
  /\ UNCHANGED <<findup, helper_vars, locals, client_id, client_secret, device_code, expires_in,
                 initial_interval, token, extra, exit_status, issued, role_resp,
                 role_args, slow_downs, browser_raised, ok>>

\* mutant of PollAuthorizationPending: the retry does not sleep
PollAuthorizationPendingNoSleep ==
  /\ SendCreateToken
  /\ \E c \in ErrorCodes, latency \in Latencies :
       /\ IsAuthorizationPending(c)
       /\ code' = c
       /\ answered' = "ClientError"
       /\ now' = now + latency
  /\ pendings' = pendings + 1
  /\ sleeps_since_request' = 0
  /\ IF TimedOut(now', expires_in)
       THEN ReturnNone(MsgTimedOut, "AuthorizationTimeout")
       ELSE pc' = "poll" /\ UNCHANGED <<diag, result, failure>>
  /\ UNCHANGED <<findup, helper_vars, locals, oidc_locals, token, extra, exit_status, issued, role_resp,
                 role_args, sleeps, slept, slow_downs, browser_raised, ok>>

\* lines 196-203: AuthorizationPendingException: sleep, then the expiry check
PollAuthorizationPending ==
  /\ SendCreateToken
  /\ \E c \in ErrorCodes, latency \in Latencies :
       /\ IsAuthorizationPending(c)
       /\ code' = c
       /\ answered' = "ClientError"
       /\ now' = now + latency + interval
  /\ pendings' = pendings + 1
  /\ sleeps' = sleeps + 1
  /\ slept' = slept + interval
  /\ sleeps_since_request' = 1
  /\ IF TimedOut(now', expires_in)
       THEN ReturnNone(MsgTimedOut, "AuthorizationTimeout")
       ELSE pc' = "poll" /\ UNCHANGED <<diag, result, failure>>
  /\ UNCHANGED <<findup, helper_vars, locals, oidc_locals, token, extra, exit_status, issued, role_resp,
                 role_args, slow_downs, browser_raised, ok>>

\* lines 204-207: SlowDownException: raise the interval, sleep, continue
PollSlowDown ==
  /\ SendCreateToken
  /\ interval' = NextInterval(interval)
  /\ \E c \in ErrorCodes, latency \in Latencies :
       /\ ~IsAuthorizationPending(c) /\ IsSlowDown(c)
       /\ code' = c
       /\ answered' = "ClientError"
       /\ now' = now + latency + interval'
  /\ slow_downs' = slow_downs + 1
  /\ sleeps' = sleeps + 1
  /\ slept' = slept + interval'
  /\ sleeps_since_request' = 1
  /\ pc' = "poll"
  /\ UNCHANGED <<findup, helper_vars, locals, client_id, client_secret, device_code, expires_in,
                 initial_interval, token, extra, result, diag, exit_status, issued,
                 role_resp, role_args, pendings, failure, browser_raised, ok>>

\* lines 208-210: any other ClientError: print and return None
PollTokenError ==
  /\ SendCreateToken
  /\ \E c \in ErrorCodes, latency \in Latencies :
       /\ ~IsAuthorizationPending(c) /\ ~IsSlowDown(c)
       /\ code' = c
       /\ answered' = "ClientError"
       /\ now' = now + latency
  /\ sleeps_since_request' = 0
  /\ ReturnNone(MsgTokenError, "TokenExchangeError")
  /\ UNCHANGED <<findup, helper_vars, locals, oidc_locals, token, extra, exit_status, issued, role_resp,
                 role_args, sleeps, slept, pendings, slow_downs, browser_raised, ok>>

\* --------------------------------------------- after the loop, lines 212-237
\* lines 212-214: if not token
TokenMissing ==
  /\ pc = "after_poll" /\ ~Truthy(token)
  /\ ReturnNone(MsgNoToken, "NoAccessToken")
  /\ UNCHANGED <<findup, helper_vars, locals, oidc_locals, token, now, code, extra, exit_status, calls, issued,
                 role_resp, token_args, role_args, poll_counts, browser_raised, ok>>

\* lines 219: the keyword arguments of get_role_credentials
RoleArgs(acct, role, tok) == [accountId |-> acct, roleName |-> role, accessToken |-> tok]

\* mutant of ExtraOf: the access key id and the secret key are exchanged
ExtraOfSwapped(rc, region) ==
  [aws_access_key_id |-> rc.secretAccessKey, aws_secret_access_key |-> rc.accessKeyId,
   aws_session_token |-> rc.sessionToken, region_name |-> region]

\* lines 229-231: the credentials dict
ExtraOf(rc, region) ==
  [aws_access_key_id |-> rc.accessKeyId, aws_secret_access_key |-> rc.secretAccessKey,
   aws_session_token |-> rc.sessionToken, region_name |-> region]

\* lines 216-232: get_role_credentials answered
GetRoleCredentials ==
  /\ pc = "after_poll" /\ Truthy(token)
  /\ Called("get_role_credentials")
  /\ role_args' = RoleArgs(account_id, role_name, token)
  /\ \E rc \in RoleCredentials :
       /\ role_resp' = rc
       /\ extra' = ExtraOf(rc, PyOr(conf_region, sso_region))
  /\ pc' = "verify"
  /\ UNCHANGED <<findup, helper_vars, locals, oidc_locals, token, now, code, result, diag, exit_status, issued,
                 token_args, poll_counts, failure, browser_raised, ok>>

\* mutant of GetRoleCredentialsRejected: the rejection is printed but the flow goes on
GetRoleCredentialsRejectedGoesOn ==
  /\ pc = "after_poll" /\ Truthy(token)
  /\ Called("get_role_credentials")
  /\ role_args' = RoleArgs(account_id, role_name, token)
  /\ diag' = MsgRoleFailed
  /\ failure' = "RoleCredentialError"
  /\ pc' = "verify"
  /\ UNCHANGED <<findup, helper_vars, locals, oidc_locals, token, now, code, extra, result, exit_status,
                 issued, role_resp, token_args, poll_counts, browser_raised, ok>>

\* lines 216-226: get_role_credentials raised ClientError
GetRoleCredentialsRejected ==
  /\ pc = "after_poll" /\ Truthy(token)
  /\ Called("get_role_credentials")
  /\ role_args' = RoleArgs(account_id, role_name, token)
  /\ ReturnNone(MsgRoleFailed, "RoleCredentialError")
  /\ UNCHANGED <<findup, helper_vars, locals, oidc_locals, token, now, code, extra, exit_status, issued,
                 role_resp, token_args, poll_counts, browser_raised, ok>>

\* lines 233-236 with verify_profile_with_boto3 returning True (lines 114-129)
VerifySucceeded ==
  /\ pc = "verify"
  /\ Called("get_caller_identity")
  /\ ok' = TRUE
  /\ diag' = MsgVerified
  /\ result' = extra
  /\ pc' = "login_returned"
  /\ UNCHANGED <<findup, helper_vars, locals, oidc_locals, token, now, code, extra, exit_status, issued,
                 role_resp, token_args, role_args, poll_counts, failure, browser_raised>>

\* mutant of VerifyFailed: the credentials are returned although verification failed
VerifyFailedKeepsCredentials ==
  /\ pc = "verify"
  /\ Called("get_caller_identity")
  /\ ok' = FALSE
  /\ diag' \in VerifyMessages
  /\ result' = extra
  /\ failure' = "VerificationFailed"
  /\ pc' = "login_returned"
  /\ UNCHANGED <<findup, helper_vars, locals, oidc_locals, token, now, code, extra, exit_status, issued,
                 role_resp, token_args, role_args, poll_counts, browser_raised>>

\* lines 233, 237 with verify_profile_with_boto3 returning False (lines 130-138)
VerifyFailed ==
  /\ pc = "verify"
  /\ Called("get_caller_identity")
  /\ ok' = FALSE
  /\ \E msg \in VerifyMessages : ReturnNone(msg, "VerificationFailed")
  /\ UNCHANGED <<findup, helper_vars, locals, oidc_locals, token, now, code, extra, exit_status, issued,
                 role_resp, token_args, role_args, poll_counts, browser_raised>>

\* -------------------------------------------------------------- specification
Next ==
  \/ MainStartLogin
  \/ MainVerifyPlainProfile
  \/ LoginMissingConfig
  \/ RegisterClient
  \/ RegisterClientRejected
  \/ StartDeviceAuthorization
  \/ StartDeviceAuthorizationRejected
  \/ PresentToUser
  \/ PollTokenGranted
  \/ PollAuthorizationPending
  \/ PollSlowDown
  \/ PollTokenError
  \/ TokenMissing
  \/ GetRoleCredentials
  \/ GetRoleCredentialsRejected
  \/ VerifySucceeded
  \/ VerifyFailed
  \/ MainLoginFailed
  \/ MainCodeCommit

Spec == Init /\ [][Next]_vars

\* ---------------------------------------------------------------- findup.py
\* bounds: directories are 0..MaxDepth, 0 being "/", each the parent of the next
MaxDepth == 2
\* at most this many targets on the command line
MaxTargets == 2

Dirs == 0..MaxDepth
TargetNames == {"a", "b"}
TargetLists == UNION {[1..n -> TargetNames] : n \in 0..MaxTargets}

\* os.path.dirname: the parent, "/" being its own
dirname(d) == IF d = 0 THEN 0 ELSE d - 1

\* collect_dirs(start, topdir): start and its ancestors up to topdir (or "/")
RECURSIVE collect_dirs(_, _)
collect_dirs(cur, topdir) ==
  IF cur = topdir \/ dirname(cur) = cur
    THEN <<cur>>
    ELSE <<cur>> \o collect_dirs(dirname(cur), topdir)

\* the command lines and file systems findup.py is started with
FindupStarts ==
  [pc : {"start"}, help : BOOLEAN, all : BOOLEAN, reverse : BOOLEAN,
   targets : TargetLists, topdir : Dirs, cwd : Dirs,
   exists : SUBSET (Dirs \X TargetNames), status : {<<>>}]

\* aws-grok is not run while findup.py runs
GrokNotRun ==
  /\ pc = "not_run" /\ is_sso = FALSE
  /\ start_url = NoValue /\ sso_region = NoValue /\ account_id = NoValue
  /\ role_name = NoValue /\ conf_region = NoValue
  /\ FlowNotStarted

FindupInit ==
  /\ findup \in FindupStarts
  /\ GrokNotRun
  /\ HelpersNotRun

\* return status / sys.exit(status)
FindupExit(status) == findup' = [findup EXCEPT !.pc = "exit", !.status = <<status>>]

\* lines 39-41: -h prints the usage and returns 0
FindupHelp ==
  /\ findup.pc = "start" /\ findup.help
  /\ FindupExit(0)
  /\ UNCHANGED <<grok_vars, helper_vars>>

\* lines 43-45: no target: error message, return 2
FindupNoTarget ==
  /\ findup.pc = "start" /\ ~findup.help /\ Len(findup.targets) = 0
  /\ FindupExit(2)
  /\ UNCHANGED <<grok_vars, helper_vars>>

\* lines 47-52: with targets: topdir and cwd are printed and sys.exit(1) ends
\* the process; the search of lines 54-94 is never reached
FindupPrintAndExit ==
  /\ findup.pc = "start" /\ ~findup.help /\ Len(findup.targets) > 0
  /\ FindupExit(1)
  /\ UNCHANGED <<grok_vars, helper_vars>>

FindupNext == FindupHelp \/ FindupNoTarget \/ FindupPrintAndExit

FindupSpec == FindupInit /\ [][FindupNext]_vars

\* --------------------------------------------------------- resolve_sso_conf
\* bound: the [sso-session NAME] sections of ~/.aws/config
MaxSessions == 1

AllSessionNames == <<"s1", "s2", "s3">>
SessionNames == {AllSessionNames[i] : i \in 1..MaxSessions}

\* a Dict[str, str]: a function from the keys present to their values
EmptyDict == [k \in {} |-> ""]
Dicts(keys, values) == UNION {[present -> values] : present \in SUBSET keys}

\* a profile section: it may name the session s1, or one that does not exist
ProfileKeys == {"sso_session", "region", "sso_region", "sso_account_id"}
ProfileValues == {"", "a", "s1"}
ProfileSections == Dicts(ProfileKeys, ProfileValues)

\* an sso-session section; its values differ from every profile value
SessionKeys == {"region", "sso_region", "sso_account_id"}
SessionValues == {"", "c"}
SessionSections == Dicts(SessionKeys, SessionValues)
SsoSessions == UNION {[present -> SessionSections] : present \in SUBSET SessionNames}

\* out.setdefault(k, v)
SetDefault(out, k, v) ==
  IF k \in DOMAIN out THEN out
  ELSE [x \in DOMAIN out \cup {k} |-> IF x = k THEN v ELSE out[x]]

\* lines 66-67: for k, v in sess.items(): out.setdefault(k, v)
SetDefaults(out, sess) ==
  [x \in DOMAIN out \cup DOMAIN sess |-> IF x \in DOMAIN out THEN out[x] ELSE sess[x]]

\* lines 60-63: sess = sso_sessions.get(session_name) or {}, when session_name
SessionOf(profile_conf, sso_sessions) ==
  LET session_name == Get(profile_conf, "sso_session", NoValue) IN
    IF Truthy(session_name) /\ session_name \in DOMAIN sso_sessions
      THEN sso_sessions[session_name]
      ELSE EmptyDict

\* line 71: the first of the four that is neither missing nor empty
RegionOf(profile_conf, sess) ==
  PyOr(Get(profile_conf, "region", NoValue),
       PyOr(Get(sess, "region", NoValue),
            PyOr(Get(sess, "sso_region", NoValue),
                 Get(profile_conf, "sso_region", NoValue))))

\* mutant of resolve_sso_conf: out[k] = v, the session's values are written
\* over the profile's
resolve_sso_conf_overriding(profile_conf, sso_sessions) ==
  LET sess == SessionOf(profile_conf, sso_sessions)
      out == SetDefaults(sess, profile_conf)
      region == RegionOf(profile_conf, sess)
  IN IF Truthy(region) THEN SetDefault(out, "region", region) ELSE out

\* lines 57-74
resolve_sso_conf(profile_conf, sso_sessions) ==
  LET sess == SessionOf(profile_conf, sso_sessions)
      out == SetDefaults(profile_conf, sess)
      region == RegionOf(profile_conf, sess)
  IN IF Truthy(region) THEN SetDefault(out, "region", region) ELSE out

\* the sections read_aws_config returned: one profile and the sessions
ResolveStarts ==
  [pc : {"start"}, profile_conf : ProfileSections, sso_sessions : SsoSessions,
   merged : {EmptyDict}]

ResolveInit ==
  /\ merge \in ResolveStarts
  /\ walk = HelperNotRun /\ ancestry = HelperNotRun
  /\ findup = FindupNotRun
  /\ GrokNotRun

\* line 518 (and line 80): merged_conf = resolve_sso_conf(conf, sso_sessions)
ResolveSsoConf ==
  /\ merge.pc = "start"
  /\ merge' = [merge EXCEPT !.pc = "merged",
                            !.merged = resolve_sso_conf(merge.profile_conf, merge.sso_sessions)]
  /\ UNCHANGED <<grok_vars, findup, walk, ancestry>>

ResolveNext == ResolveSsoConf

ResolveSpec == ResolveInit /\ [][ResolveNext]_vars

\* ------------------------------------------------------- CodeCommit helpers
\* bound: a commit has at most this many parents
MaxParents == 2
\* line 338: while to_visit and steps < 5000
StepLimit == 5000

Commits == {"c1", "c2", "c3"}

\* commit.get("parents", []): a list of commit ids, none of them twice
ParentLists ==
  {l \in UNION {[1..n -> Commits] : n \in 0..MaxParents} :
     \A i, j \in 1..Len(l) : i /= j => l[i] /= l[j]}

\* what a commit id meets: it is in the cache already, get_commit answers, or
\* get_commit raises
Lookups == {"cached", "ok", "fails"}

\* to_visit.pop(): the last element is taken
Last(l) == l[Len(l)]
AllButLast(l) == SubSeq(l, 1, Len(l) - 1)

ZeroCounts == [c \in Commits |-> 0]

\* the commit graph as get_commit and the cache give it, the two commit ids
\* (the ids being interchangeable, the descendant is c1), and the locals of
\* lines 335-337
AncestryStart(pa, lk, a, d) ==
  [pc |-> "loop", parents |-> pa, lookup |-> lk, ancestor |-> a, descendant |-> d,
   cache |-> {c \in Commits : lk[c] = "cached"},
   to_visit |-> <<d>>, visited |-> {}, steps |-> 0, result |-> <<>>,
   fetched |-> ZeroCounts, expanded |-> ZeroCounts]

\* a commit whose lookup raises shows no parents
AncestryInit ==
  /\ \E lk \in [Commits -> Lookups], pa \in [Commits -> ParentLists],
        a \in Commits, d \in {"c1"} :
       /\ \A c \in Commits : lk[c] = "fails" => pa[c] = <<>>
       /\ ancestry = AncestryStart(pa, lk, a, d)
  /\ merge = HelperNotRun /\ walk = HelperNotRun
  /\ findup = FindupNotRun
  /\ GrokNotRun

\* line 338: the loop goes on
AncestryLooping ==
  /\ ancestry.pc = "loop"
  /\ ancestry.to_visit /= <<>> /\ ancestry.steps < StepLimit

\* lines 339-341: cur was visited before: continue
AncestrySkipVisited ==
  /\ AncestryLooping
  /\ Last(ancestry.to_visit) \in ancestry.visited
  /\ ancestry' = [ancestry EXCEPT !.to_visit = AllButLast(@)]
  /\ UNCHANGED <<grok_vars, findup, merge, walk>>

\* lines 339-344: cur is the ancestor: return True
AncestryFound ==
  /\ AncestryLooping
  /\ LET cur == Last(ancestry.to_visit) IN
       /\ cur \notin ancestry.visited
       /\ cur = ancestry.ancestor
       /\ ancestry' = [ancestry EXCEPT !.to_visit = AllButLast(@),
                                       !.visited = @ \cup {cur},
                                       !.result = <<TRUE>>,
                                       !.pc = "returned"]
  /\ UNCHANGED <<grok_vars, findup, merge, walk>>

\* lines 345-346, 355-356: the parents are read from the cache
AncestryExpandCached ==
  /\ AncestryLooping
  /\ LET cur == Last(ancestry.to_visit) IN
       /\ cur \notin ancestry.visited
       /\ cur /= ancestry.ancestor
       /\ cur \in ancestry.cache
       /\ ancestry' = [ancestry EXCEPT !.to_visit = AllButLast(@) \o ancestry.parents[cur],
                                       !.visited = @ \cup {cur},
                                       !.expanded[cur] = @ + 1,
                                       !.steps = @ + 1]
  /\ UNCHANGED <<grok_vars, findup, merge, walk>>

\* mutant of AncestryExpandFetched: only the first parent is followed
AncestryExpandFetchedFirstParent ==
  /\ AncestryLooping
  /\ LET cur == Last(ancestry.to_visit) IN
       /\ cur \notin ancestry.visited
       /\ cur /= ancestry.ancestor
       /\ cur \notin ancestry.cache
       /\ ancestry.lookup[cur] = "ok"
       /\ ancestry' = [ancestry EXCEPT !.to_visit =
                                         AllButLast(@) \o
                                           (IF ancestry.parents[cur] = <<>> THEN <<>>
                                            ELSE <<ancestry.parents[cur][1]>>),
                                       !.visited = @ \cup {cur},
                                       !.cache = @ \cup {cur},
                                       !.fetched[cur] = @ + 1,
                                       !.expanded[cur] = @ + 1,
                                       !.steps = @ + 1]
  /\ UNCHANGED <<grok_vars, findup, merge, walk>>

\* lines 347-356: get_commit answers: the commit is cached, its parents pushed
AncestryExpandFetched ==
  /\ AncestryLooping
  /\ LET cur == Last(ancestry.to_visit) IN
       /\ cur \notin ancestry.visited
       /\ cur /= ancestry.ancestor
       /\ cur \notin ancestry.cache
       /\ ancestry.lookup[cur] = "ok"
       /\ ancestry' = [ancestry EXCEPT !.to_visit = AllButLast(@) \o ancestry.parents[cur],
                                       !.visited = @ \cup {cur},
                                       !.cache = @ \cup {cur},
                                       !.fetched[cur] = @ + 1,
                                       !.expanded[cur] = @ + 1,
                                       !.steps = @ + 1]
  /\ UNCHANGED <<grok_vars, findup, merge, walk>>

\* lines 347-351, 355-356: get_commit raises: parents = [], nothing is cached
AncestryLookupFailed ==
  /\ AncestryLooping
  /\ LET cur == Last(ancestry.to_visit) IN
       /\ cur \notin ancestry.visited
       /\ cur /= ancestry.ancestor
       /\ cur \notin ancestry.cache
       /\ ancestry.lookup[cur] = "fails"
       /\ ancestry' = [ancestry EXCEPT !.to_visit = AllButLast(@),
                                       !.visited = @ \cup {cur},
                                       !.fetched[cur] = @ + 1,
                                       !.expanded[cur] = @ + 1,
                                       !.steps = @ + 1]
  /\ UNCHANGED <<grok_vars, findup, merge, walk>>

\* lines 338, 357: the loop ends: return False
AncestryExhausted ==
  /\ ancestry.pc = "loop"
  /\ ~(ancestry.to_visit /= <<>> /\ ancestry.steps < StepLimit)
  /\ ancestry' = [ancestry EXCEPT !.result = <<FALSE>>, !.pc = "returned"]
  /\ UNCHANGED <<grok_vars, findup, merge, walk>>

AncestryNext ==
  \/ AncestrySkipVisited
  \/ AncestryFound
  \/ AncestryExpandCached
  \/ AncestryExpandFetched
  \/ AncestryLookupFailed
  \/ AncestryExhausted

\* the function is straight-line code: a step that can be taken is taken
AncestrySpec == AncestryInit /\ [][AncestryNext]_vars /\ WF_vars(AncestryNext)

\* ------------------------------------------- _find_last_commit_for_file
\* line 295: while commit_id and checked < 2000
CheckLimit == 2000

\* the file looked for (no leading slash, as _list_all_files returns it);
\* get_differences reports the paths "f", "/f" and "g"
FilePath == "f"

\* line 321: p[1:] if p.startswith("/") else p
StripSlash(p) == IF p = "/f" THEN "f" ELSE p

\* one difference: the path of afterBlob and of beforeBlob (None without the
\* blob), and the keys afterPath and beforePath
Difference(after, before) ==
  [afterBlob |-> after, beforeBlob |-> before, afterPath |-> NoValue, beforePath |-> NoValue]

\* lines 315-324: one of the four paths of the difference is the file
ListsFile(d, file_path) ==
  \E q \in {d.afterBlob, d.beforeBlob, d.afterPath, d.beforePath} :
     Truthy(q) /\ StripSlash(q) = file_path

\* lines 313-326: found
Found(differences, file_path) ==
  \E i \in 1..Len(differences) : ListsFile(differences[i], file_path)

\* what get_differences(parent, commit) does: it raises or answers; in both
\* cases differences is what the two commits differ in
TouchesOther == <<Difference("g", "g")>>
DifferenceAnswers ==
  {[raises |-> FALSE, differences |-> TouchesOther],
   [raises |-> FALSE, differences |-> <<Difference("g", "g"), Difference("/f", NoValue)>>],
   [raises |-> FALSE, differences |-> <<Difference(NoValue, "f")>>],
   [raises |-> TRUE, differences |-> TouchesOther]}
Unread == [raises |-> FALSE, differences |-> TouchesOther]

\* the walk reads parents[0] only: commits with no, one or two parents
WalkParentLists == {l \in ParentLists : Len(l) <= 2}

\* the iteration at commit c is the last one: get_commit raises, c is a root,
\* get_differences raises, or the difference lists the file
WalkEndsAt(c, pa, df, failing) ==
  \/ c \in failing
  \/ pa[c] = <<>>
  \/ df[c].raises
  \/ Found(df[c].differences, FilePath)

\* the commits the walk from head reads: head, then the first parent of every
\* commit the walk does not end at
RECURSIVE WalkPathFrom(_, _, _, _)
WalkPathFrom(S, pa, df, failing) ==
  LET T == S \cup {pa[c][1] : c \in {x \in S : ~WalkEndsAt(x, pa, df, failing)}}
  IN IF T = S THEN S ELSE WalkPathFrom(T, pa, df, failing)
WalkPath(head, pa, df, failing) ==
  IF Truthy(head) THEN WalkPathFrom({head}, pa, df, failing) ELSE {}

\* the arguments and the locals of lines 293-294
WalkStart(head, pa, df, failing, cache) ==
  [pc |-> "loop", head |-> head, parents |-> pa, diffs |-> df, failing |-> failing,
   cache |-> cache, commit_id |-> head, checked |-> 0, result |-> <<>>,
   passed |-> {}]

\* head is the commit id of the branch (None when get_branch answers none);
\* the cache is empty or holds the head from an earlier walk; what the walk
\* never reads is left plain
WalkInit ==
  /\ \E failing \in SUBSET Commits, head \in {"c3", NoValue} :
       \E pa \in [Commits -> WalkParentLists] :
          /\ \A c \in failing : pa[c] = <<>>
          /\ \E df \in [Commits -> DifferenceAnswers] :
               /\ \A c \in Commits : pa[c] = <<>> => df[c] = Unread
               /\ \A c \in Commits \ WalkPath(head, pa, df, failing) :
                     pa[c] = <<>> /\ c \notin failing
               /\ \E cache \in {{}} \cup {{c} : c \in ({head} \cap Commits) \ failing} :
                     walk = WalkStart(head, pa, df, failing, cache)
  /\ merge = HelperNotRun /\ ancestry = HelperNotRun
  /\ findup = FindupNotRun
  /\ GrokNotRun

\* line 295: the loop goes on; line 296
WalkLooping ==
  /\ walk.pc = "loop"
  /\ Truthy(walk.commit_id) /\ walk.checked < CheckLimit

\* lines 297-301: the commit comes from the cache or from get_commit
WalkHasCommit ==
  /\ WalkLooping
  /\ walk.commit_id \in walk.cache \/ walk.commit_id \notin walk.failing

\* lines 299-300: get_commit raises; the exception leaves the function
WalkGetCommitRaises ==
  /\ WalkLooping
  /\ walk.commit_id \notin walk.cache /\ walk.commit_id \in walk.failing
  /\ walk' = [walk EXCEPT !.checked = @ + 1, !.pc = "raised"]
  /\ UNCHANGED <<grok_vars, findup, merge, ancestry>>

\* return commit_id
WalkReturn(commit) ==
  walk' = [walk EXCEPT !.checked = @ + 1,
                       !.cache = @ \cup {walk.commit_id},
                       !.result = <<commit>>,
                       !.pc = "returned"]

\* lines 302-305: a root commit is returned as it is
WalkRoot ==
  /\ WalkHasCommit
  /\ walk.parents[walk.commit_id] = <<>>
  /\ WalkReturn(walk.commit_id)
  /\ UNCHANGED <<grok_vars, findup, merge, ancestry>>

\* lines 308-312: get_differences raises: the commit is returned
WalkDifferencesRaise ==
  /\ WalkHasCommit
  /\ walk.parents[walk.commit_id] /= <<>>
  /\ walk.diffs[walk.commit_id].raises
  /\ WalkReturn(walk.commit_id)
  /\ UNCHANGED <<grok_vars, findup, merge, ancestry>>

\* mutant of WalkFound: the parent is returned instead of the commit
WalkFoundReturnsParent ==
  /\ WalkHasCommit
  /\ walk.parents[walk.commit_id] /= <<>>
  /\ ~walk.diffs[walk.commit_id].raises
  /\ Found(walk.diffs[walk.commit_id].differences, FilePath)
  /\ WalkReturn(walk.parents[walk.commit_id][1])
  /\ UNCHANGED <<grok_vars, findup, merge, ancestry>>

\* lines 313-328: the difference lists the file: the commit is returned
WalkFound ==
  /\ WalkHasCommit
  /\ walk.parents[walk.commit_id] /= <<>>
  /\ ~walk.diffs[walk.commit_id].raises
  /\ Found(walk.diffs[walk.commit_id].differences, FilePath)
  /\ WalkReturn(walk.commit_id)
  /\ UNCHANGED <<grok_vars, findup, merge, ancestry>>

\* lines 313-329: the difference does not list the file: on to parents[0]
WalkNext ==
  /\ WalkHasCommit
  /\ walk.parents[walk.commit_id] /= <<>>
  /\ ~walk.diffs[walk.commit_id].raises
  /\ ~Found(walk.diffs[walk.commit_id].differences, FilePath)
  /\ walk' = [walk EXCEPT !.checked = @ + 1,
                          !.cache = @ \cup {walk.commit_id},
                          !.passed = @ \cup {walk.commit_id},
                          !.commit_id = walk.parents[walk.commit_id][1]]
  /\ UNCHANGED <<grok_vars, findup, merge, ancestry>>

\* lines 295, 330: the loop ends: return None
WalkGivesUp ==
  /\ walk.pc = "loop"
  /\ ~(Truthy(walk.commit_id) /\ walk.checked < CheckLimit)
  /\ walk' = [walk EXCEPT !.result = <<NoValue>>, !.pc = "returned"]
  /\ UNCHANGED <<grok_vars, findup, merge, ancestry>>

WalkStep ==
  \/ WalkGetCommitRaises
  \/ WalkRoot
  \/ WalkDifferencesRaise
  \/ WalkFound
  \/ WalkNext
  \/ WalkGivesUp

WalkSpec == WalkInit /\ [][WalkStep]_vars

\* ------------------------------------------------------------------ claims
Returned == pc \in {"login_returned", "exit"}
Absent(v) == v = NoValue \/ v = ""
IssuerCalls == {"register_client", "start_device_authorization", "create_token",
                "get_role_credentials"}

\* C1: when the start URL, the SSO region, the account id or the role name is
\* absent or empty, sso_device_flow_login returns None and no issuer call
\* (register_client, start_device_authorization, create_token,
\* get_role_credentials) is ever made.
C1_MissingConfigNoIssuerCall ==
  (Absent(start_url) \/ Absent(sso_region) \/ Absent(account_id) \/ Absent(role_name)) =>
     /\ \A op \in IssuerCalls : calls[op] = 0
     /\ pc \notin {"start_auth", "present", "poll", "after_poll", "verify"}
     /\ (pc = "login_returned" => result = NoDict /\ diag = MsgMissingConfig)

\* C1 witness: the flow returned for a profile whose role name alone is empty
C1_Witness ==
  /\ pc = "login_returned" /\ role_name = ""
  /\ Truthy(start_url) /\ Truthy(sso_region) /\ Truthy(account_id)
  /\ result = NoDict

\* C2: when the expiry check after an AuthorizationPending answer finds the
\* elapsed time above expiresIn, the flow returns None with the timeout
\* diagnostic, and afterwards sends no token request and no role-credential
\* request.
C2_TimeoutWhilePending ==
  [][/\ (pendings' = pendings + 1 /\ now' > expires_in) =>
          (pc' = "login_returned" /\ result' = NoDict /\ diag' = MsgTimedOut
             /\ failure' = "AuthorizationTimeout")
     /\ failure = "AuthorizationTimeout" =>
          (calls'["create_token"] = calls["create_token"]
             /\ calls'["get_role_credentials"] = 0)]_vars

\* C2 witness: main exited after a timeout that followed two Pending answers
C2_Witness ==
  /\ pc = "exit" /\ failure = "AuthorizationTimeout"
  /\ pendings = 2 /\ now > expires_in /\ diag = MsgTimedOut

\* C3 (as claimed): once the elapsed time has passed expiresIn after a
\* retryable answer, the loop has ended: it never stands at the head of the
\* loop, about to poll again, with the expiry already exceeded.
C3_BlockingBoundedByExpiry ==
  (pc = "poll" /\ calls["create_token"] > 0) => now <= expires_in

\* C4 (as claimed): after K SlowDown answers the poll interval is
\* min(initial + 5*K, 60), for every initial interval.
C4_IntervalClosedForm ==
  pc = "poll" => interval = Min(initial_interval + SlowDownStep * slow_downs, IntervalCap)

\* C5 (as claimed): during polling the interval never decreases.
C5_IntervalNeverDecreases ==
  [][pc = "poll" => interval' >= interval]_vars

\* C6: a ClientError of create_token whose code is neither
\* AuthorizationPending nor SlowDown makes the flow return None at once with
\* the token-error diagnostic: no sleep in that step, and afterwards no sleep,
\* no token request and no role-credential request.
C6_OtherErrorEndsAttempt ==
  [][/\ (calls'["create_token"] = calls["create_token"] + 1
           /\ answered' = "ClientError" /\ code' \notin {PendingCode, SlowDownCode}) =>
          (pc' = "login_returned" /\ result' = NoDict /\ diag' = MsgTokenError
             /\ failure' = "TokenExchangeError" /\ sleeps' = sleeps /\ slept' = slept)
     /\ failure = "TokenExchangeError" =>
          (sleeps' = sleeps /\ calls'["create_token"] = calls["create_token"]
             /\ calls'["get_role_credentials"] = 0)]_vars

\* C6 witness: main exited after AccessDenied answered the third token request
C6_Witness ==
  /\ pc = "exit" /\ failure = "TokenExchangeError" /\ code = "AccessDeniedException"
  /\ calls["create_token"] = 3 /\ sleeps = 2

FailureClasses == {"MissingConfiguration", "RegistrationError", "AuthorizationStartError",
                   "AuthorizationTimeout", "TokenExchangeError", "RoleCredentialError"}

\* the failure class a diagnostic line stands for
ClassOfDiagnostic(msg) ==
  CASE msg = MsgMissingConfig -> "MissingConfiguration"
    [] msg = MsgRegisterFailed -> "RegistrationError"
    [] msg = MsgStartFailed -> "AuthorizationStartError"
    [] msg = MsgTimedOut -> "AuthorizationTimeout"
    [] msg = MsgTokenError -> "TokenExchangeError"
    [] msg = MsgRoleFailed -> "RoleCredentialError"
    [] OTHER -> NoValue

C9_PendingThenGranted ==
  /\ (pc = "after_poll" /\ slow_downs = 0) =>
        /\ calls["create_token"] = pendings + 1
        /\ sleeps = pendings
        /\ slept >= pendings * initial_interval
  /\ (pc = "poll" /\ calls["create_token"] > 0) => sleeps_since_request = 1

\* C9 witness: a token was granted after two Pending answers at interval 5
C9_Witness ==
  /\ pc = "after_poll" /\ slow_downs = 0 /\ pendings = 2
  /\ calls["create_token"] = 3 /\ initial_interval = 5 /\ slept = 10

\* C10: register_client and start_device_authorization are each called at
\* most once in an attempt, and every create_token request carries the
\* clientId, clientSecret and deviceCode those two calls answered.
C10_OneRegistrationOneAuthorization ==
  /\ calls["register_client"] <= 1
  /\ calls["start_device_authorization"] <= 1
  /\ calls["create_token"] > 0 =>
        /\ calls["register_client"] = 1 /\ calls["start_device_authorization"] = 1
        /\ token_args = [clientId |-> issued.clientId,
                         clientSecret |-> issued.clientSecret,
                         deviceCode |-> issued.deviceCode]

\* C10 witness: the third token request carries the second registration's values
C10_Witness ==
  /\ calls["create_token"] = 3
  /\ token_args = [clientId |-> "cidB", clientSecret |-> "secB", deviceCode |-> "devB"]

\* how far the attempt has come: main, Registering, AwaitingAuthorization
\* (the call, then the presentation), Polling, Exchanging (the call, then the
\* verification), returned (Done or Failed), main's exit
Rank(p) ==
  CASE p = "main" -> 0
    [] p = "check_config" -> 1
    [] p = "start_auth" -> 2
    [] p = "present" -> 3
    [] p = "poll" -> 4
    [] p = "after_poll" -> 5
    [] p = "verify" -> 6
    [] p = "login_returned" -> 7
    [] p = "exit" -> 8

\* a step of the program that makes the flow return None
FailsNow == Next /\ pc' = "login_returned" /\ result' = NoDict

\* C11: the flow only moves forward; start_device_authorization is called
\* only after register_client answered, create_token only after
\* start_device_authorization answered, get_role_credentials only after a
\* create_token answered; every non-terminal state has a step to failure; and
\* once the flow returned, its result, failure and issuer calls stay as they are.
C11_ForwardOnly ==
  /\ [][/\ Rank(pc') >= Rank(pc)
        /\ calls'["start_device_authorization"] > calls["start_device_authorization"] =>
             (pc = "start_auth" /\ issued.clientId /= NoValue /\ client_id = issued.clientId)
        /\ calls'["create_token"] > calls["create_token"] =>
             (pc = "poll" /\ issued.deviceCode /= NoValue /\ device_code = issued.deviceCode)
        /\ calls'["get_role_credentials"] > calls["get_role_credentials"] =>
             (pc = "after_poll" /\ answered = "token")
        /\ Returned =>
             (UNCHANGED <<result, failure, diag>>
                /\ \A op \in IssuerCalls : calls'[op] = calls[op])]_vars
  /\ []((\/ pc = "check_config"
         \/ pc = "start_auth"
         \/ pc = "poll" /\ calls["create_token"] < MaxPolls
         \/ pc = "after_poll") => ENABLED FailsNow)

\* C11 witness: an attempt went through every state and main exited with 0
C11_Witness ==
  /\ pc = "exit" /\ exit_status = <<0>> /\ failure = NoValue
  /\ \A op \in IssuerCalls : calls[op] >= 1

\* C12: a ClientError of register_client, start_device_authorization or
\* get_role_credentials makes the flow return None with the rejected call made
\* once and no later step (device authorization, browser, token request,
\* role credentials, verification, codecommit) made at all.
C12_RejectionEndsAttempt ==
  /\ failure = "RegistrationError" =>
       /\ Returned /\ result = NoDict
       /\ calls["register_client"] = 1
       /\ \A op \in Operations \ {"register_client"} : calls[op] = 0
  /\ failure = "AuthorizationStartError" =>
       /\ Returned /\ result = NoDict
       /\ calls["register_client"] = 1 /\ calls["start_device_authorization"] = 1
       /\ \A op \in Operations \ {"register_client", "start_device_authorization"} :
            calls[op] = 0
  /\ failure = "RoleCredentialError" =>
       /\ Returned /\ result = NoDict
       /\ calls["get_role_credentials"] = 1
       /\ calls["get_caller_identity"] = 0 /\ calls["codecommit"] = 0

\* C12 witness: main exited with 1 after start_device_authorization was rejected
C12_Witness ==
  /\ pc = "exit" /\ failure = "AuthorizationStartError" /\ exit_status = <<1>>
  /\ calls["start_device_authorization"] = 1

\* C13: get_role_credentials is called at most once, with the access token
\* the answering create_token returned; when that answer carries no or an
\* empty access token the call is not made and the flow returns None.
C13_TokenUsedOnce ==
  /\ calls["get_role_credentials"] <= 1
  /\ calls["get_role_credentials"] = 1 =>
       /\ answered = "token"
       /\ ~Absent(issued.accessToken)
       /\ role_args.accessToken = issued.accessToken
  /\ (answered = "token" /\ Absent(issued.accessToken)) =>
       /\ calls["get_role_credentials"] = 0
       /\ pc \in {"after_poll", "login_returned", "exit"}
       /\ Returned => (result = NoDict /\ failure = "NoAccessToken")

\* C13 witness: create_token answered an empty access token and main exited with 1
C13_Witness ==
  /\ pc = "exit" /\ answered = "token" /\ issued.accessToken = ""
  /\ calls["get_role_credentials"] = 0 /\ exit_status = <<1>>

\* what the issuer's answers alone make of the attempt (webbrowser.open is not read)
OutcomeOfAnswers ==
  IF Absent(start_url) \/ Absent(sso_region) \/ Absent(account_id) \/ Absent(role_name)
    THEN "MissingConfiguration"
  ELSE IF issued.clientId = NoValue THEN "RegistrationError"
  ELSE IF issued.deviceCode = NoValue THEN "AuthorizationStartError"
  ELSE IF answered = "ClientError"
    THEN (IF code = PendingCode THEN "AuthorizationTimeout" ELSE "TokenExchangeError")
  ELSE IF Absent(issued.accessToken) THEN "NoAccessToken"
  ELSE IF role_resp = NoDict THEN "RoleCredentialError"
  ELSE IF ~ok THEN "VerificationFailed"
  ELSE NoValue

\* C14: whether webbrowser.open raised or not, the flow goes on to polling
\* without failing, and the final outcome is the one the issuer's answers
\* determine.
C14_BrowserBestEffort ==
  /\ [][pc = "present" =>
          (pc' = "poll" /\ failure' = NoValue /\ result' = NoDict
             /\ calls'["webbrowser_open"] = 1)]_vars
  /\ []((Returned /\ is_sso) =>
          (failure = OutcomeOfAnswers /\ (result /= NoDict <=> failure = NoValue)))

\* C14 witness: webbrowser.open raised and the attempt still ended with credentials
C14_Witness ==
  /\ pc = "exit" /\ browser_raised /\ result /= NoDict /\ exit_status = <<0>>

\* C15: the credentials returned are the accessKeyId, secretAccessKey and
\* sessionToken get_role_credentials answered; with interval 5, expiresIn 20
\* and two Pending answers before the token they are returned after exactly
\* two sleeps of 5 seconds.
C15_ReturnedCredentials ==
  (Returned /\ result /= NoDict) =>
     /\ result.aws_access_key_id = role_resp.accessKeyId
     /\ result.aws_secret_access_key = role_resp.secretAccessKey
     /\ result.aws_session_token = role_resp.sessionToken
     /\ (initial_interval = 5 /\ expires_in = 20 /\ pendings = 2 /\ slow_downs = 0) =>
          (calls["create_token"] = 3 /\ sleeps = 2 /\ slept = 10)

\* C15 witness: the end-to-end scenario ended with the second credential set
C15_Witness ==
  /\ pc = "exit" /\ result /= NoDict
  /\ initial_interval = 5 /\ expires_in = 20 /\ pendings = 2 /\ slow_downs = 0
  /\ result.aws_access_key_id = "akB" /\ result.aws_session_token = "stB"

\* C16: when every answer is AuthorizationPending (interval > 0), at most
\* floor(expiresIn / interval) + 1 token requests are sent, and the last of
\* them ends in the timeout; with interval 5 and expiresIn 8 that is at most 2.
C16_PendingForeverBound ==
  (interval > 0 /\ slow_downs = 0 /\ pendings > 0 /\ pendings = calls["create_token"]) =>
     /\ calls["create_token"] <= (expires_in \div interval) + 1
     /\ calls["create_token"] = (expires_in \div interval) + 1 =>
          (failure = "AuthorizationTimeout" /\ Returned)
     /\ (interval = 5 /\ expires_in = 8) => calls["create_token"] <= 2

\* C16 witness: interval 5, expiresIn 8: the second Pending answer timed out at 10 s
C16_Witness ==
  /\ failure = "AuthorizationTimeout" /\ initial_interval = 5 /\ expires_in = 8
  /\ slow_downs = 0 /\ calls["create_token"] = 2 /\ now = 10

\* C18 (as claimed): every sleep between token requests lasts at most 60 seconds.
C18_SleepAtMostCap ==
  [][sleeps' = sleeps + 1 => slept' - slept <= IntervalCap]_vars

\* C19 (as claimed): no token request is sent when the elapsed time already
\* exceeds expiresIn, and none after a create_token answered with a token.
C19_NoRequestAfterExpiry ==
  [][calls'["create_token"] = calls["create_token"] + 1 =>
       (now <= expires_in /\ answered /= "token")]_vars

\* C20 (as claimed): between two consecutive token requests exactly one sleep
\* occurs, it lasts the current interval, and that is strictly positive.
C20_NoBusyPolling ==
  [][/\ (calls'["create_token"] = calls["create_token"] + 1 /\ calls["create_token"] > 0) =>
          sleeps_since_request = 1
     /\ sleeps' = sleeps + 1 =>
          (slept' - slept = interval' /\ slept' - slept > 0)]_vars

\* the interval the SlowDown answers seen so far have led to (line 205 applied
\* slow_downs times to the value read at line 168)
IntervalReached ==
  IF slow_downs = 0 THEN initial_interval
  ELSE Min(initial_interval + SlowDownStep * slow_downs, IntervalCap)

\* C21: an AuthorizationPending answer leaves the poll interval unchanged and
\* the sleep after it lasts that interval; the interval is at every moment the
\* one the SlowDown answers seen so far have led to, however many Pending
\* answers came in between, so a raised interval is not reset by Pending.
C21_PendingKeepsInterval ==
  /\ [][pendings' = pendings + 1 =>
          /\ interval' = interval
          /\ slow_downs' = slow_downs
          /\ sleeps' = sleeps + 1
          /\ slept' - slept = interval]_vars
  /\ [](calls["start_device_authorization"] = 1 /\ issued.deviceCode /= NoValue =>
          interval = IntervalReached)

\* C21 witness: interval 5, one SlowDown (sleep of 10 s), then one Pending
\* answer, whose sleep lasted 10 s as well
C21_Witness ==
  /\ initial_interval = 5 /\ slow_downs = 1 /\ pendings = 1
  /\ answered = "ClientError" /\ code = PendingCode
  /\ interval = 10 /\ slept = 20

FlowOperations == IssuerCalls \cup {"webbrowser_open"}

\* C22: the device flow runs only for a profile profile_is_sso accepts;
\* codecommit is called only once the login has returned credentials, and main
\* then exits with 0; a login that returned None makes main exit with 1 and no
\* codecommit call; a profile that is not SSO-configured is only verified:
\* no operation of the device flow and no codecommit call.
C22_MainGating ==
  /\ (pc \notin {"main", "exit"} \/ \E op \in FlowOperations : calls[op] > 0) => is_sso
  /\ calls["codecommit"] > 0 =>
       /\ is_sso /\ result /= NoDict /\ ok
       /\ calls["codecommit"] = 1
       /\ pc = "exit" /\ exit_status = <<0>>
  /\ (pc = "exit" /\ is_sso /\ result = NoDict) =>
       (exit_status = <<1>> /\ calls["codecommit"] = 0)
  /\ ~is_sso =>
       /\ start_url = NoValue /\ sso_region = NoValue /\ account_id = NoValue
       /\ \A op \in FlowOperations \cup {"codecommit"} : calls[op] = 0
       /\ result = NoDict
       /\ pc = "exit" => calls["get_caller_identity"] = 1

\* C22 witness: the login of an SSO profile returned None after an empty access
\* token, and main exited with 1 without a codecommit call
C22_Witness ==
  /\ pc = "exit" /\ is_sso /\ failure = "NoAccessToken" /\ result = NoDict
  /\ exit_status = <<1>> /\ calls["codecommit"] = 0 /\ calls["create_token"] = 2

\* the sso-session section the profile's sso_session key names, if there is one
ReferencedSession(profile_conf, sso_sessions) ==
  IF "sso_session" \in DOMAIN profile_conf
       /\ profile_conf["sso_session"] \in DOMAIN sso_sessions
    THEN sso_sessions[profile_conf["sso_session"]]
    ELSE EmptyDict

\* C23: in the result of resolve_sso_conf every key of the profile has the
\* profile's value, every key only the referenced sso-session has has the
\* session's value, and resolve_sso_conf applied to the result returns the
\* result unchanged.
C23_ProfileWins ==
  merge.pc = "merged" =>
    LET p == merge.profile_conf
        m == merge.merged
        sess == ReferencedSession(p, merge.sso_sessions)
    IN /\ \A k \in DOMAIN p : k \in DOMAIN m /\ m[k] = p[k]
       /\ \A k \in DOMAIN sess \ DOMAIN p : k \in DOMAIN m /\ m[k] = sess[k]
       /\ resolve_sso_conf(m, merge.sso_sessions) = m

\* C23 witness: profile and session s1 both set region and sso_region, only
\* the session sets sso_account_id: the profile's two values and the
\* session's account id are in the result
C23_Witness ==
  /\ merge.pc = "merged"
  /\ merge.profile_conf = [sso_session |-> "s1", region |-> "", sso_region |-> "a"]
  /\ "s1" \in DOMAIN merge.sso_sessions
  /\ merge.sso_sessions["s1"] = [region |-> "c", sso_region |-> "c", sso_account_id |-> "c"]
  /\ merge.merged = [sso_session |-> "s1", region |-> "", sso_region |-> "a",
                     sso_account_id |-> "c"]

\* the commits reached from the commits of S over parent links of any parent
RECURSIVE ReachableFrom(_, _)
ReachableFrom(S, parents) ==
  LET T == S \cup UNION {{parents[c][i] : i \in 1..Len(parents[c])} : c \in S}
  IN IF T = S THEN S ELSE ReachableFrom(T, parents)

\* C24: _is_commit_ancestor returns on every commit graph, cyclic ones and
\* ones with failing lookups included; no commit is looked up or expanded more
\* than once; and with fewer than 5000 commits reachable from descendant it
\* returns True exactly when ancestor is among them.
C24_AncestorWalk ==
  /\ <>(ancestry.pc = "returned")
  /\ [](\A c \in Commits : ancestry.expanded[c] <= 1 /\ ancestry.fetched[c] <= 1)
  /\ []((ancestry.pc = "returned"
           /\ Cardinality(ReachableFrom({ancestry.descendant}, ancestry.parents)) < StepLimit) =>
          ancestry.result =
            <<ancestry.ancestor \in ReachableFrom({ancestry.descendant}, ancestry.parents)>>)

\* C24 witness: c1 has the parents c3 and c2, c2 leads back to c1; the walk
\* went round the cycle once, skipped c1 and then found the ancestor c3
C24_Witness ==
  /\ ancestry.pc = "returned" /\ ancestry.result = <<TRUE>>
  /\ ancestry.ancestor = "c3"
  /\ ancestry.parents["c1"] = <<"c3", "c2">> /\ ancestry.parents["c2"] = <<"c1">>
  /\ ancestry.visited = {"c1", "c2", "c3"}
  /\ ancestry.expanded = [c \in Commits |-> IF c = "c3" THEN 0 ELSE 1]

\* the commits on the first-parent chain from head, up to the one the walk ends at
WalkedChain == WalkPath(walk.head, walk.parents, walk.diffs, walk.failing)

\* the difference of commit c against its first parent lists the file
ChangesFile(c) == Found(walk.diffs[c].differences, FilePath)

\* C25 (as claimed): the commit _find_last_commit_for_file returns is on the
\* first-parent chain from head, its difference against its parent lists the
\* file (a root commit, having no parent, brings in all it holds), no commit
\* passed before it changed the file, and at most 2000 commits are examined.
C25_FirstChangingCommit ==
  /\ walk.checked <= CheckLimit
  /\ (walk.pc = "returned" /\ walk.result /= <<NoValue>>) =>
       LET c == walk.result[1] IN
         /\ c \in WalkedChain
         /\ walk.parents[c] /= <<>> => ChangesFile(c)
         /\ \A q \in walk.passed : ~ChangesFile(q)

\* C25 (amended): the commit returned is the nearest commit on the
\* first-parent chain from head that is a root commit, or whose
\* get_differences call raised, or whose difference against its first parent
\* lists the file; every commit passed before it has a parent and a
\* difference that was answered and does not list the file; None is returned
\* only for an empty head or after 2000 commits examined without such a
\* commit; and never more than 2000 commits are examined.
C25_FirstStoppingCommit ==
  /\ walk.checked <= CheckLimit
  /\ \A q \in walk.passed :
       /\ q \in WalkedChain
       /\ walk.parents[q] /= <<>> /\ ~walk.diffs[q].raises /\ ~ChangesFile(q)
  /\ walk.pc = "raised" => walk.commit_id \in walk.failing
  /\ walk.pc = "returned" =>
       IF walk.result = <<NoValue>>
         THEN /\ ~Truthy(walk.head) \/ walk.checked = CheckLimit
              /\ \A c \in WalkedChain :
                    ~WalkEndsAt(c, walk.parents, walk.diffs, walk.failing)
         ELSE LET c == walk.result[1] IN
                /\ c \in WalkedChain /\ c \notin walk.passed
                /\ c = walk.head \/ \E q \in walk.passed : walk.parents[q][1] = c
                /\ \/ walk.parents[c] = <<>>
                   \/ walk.diffs[c].raises
                   \/ ChangesFile(c)

\* C25 witness: c3 and c2 were passed and c1, whose get_differences call
\* raised and which did not change the file, was returned
C25_Witness ==
  /\ walk.pc = "returned" /\ walk.result = <<"c1">>
  /\ walk.passed = {"c3", "c2"} /\ walk.checked = 3
  /\ walk.diffs["c1"].raises /\ ~ChangesFile("c1")

\* some target exists in one of the directories from cwd upward to topdir
FindupSomeTargetExists ==
  LET dirs == collect_dirs(findup.cwd, findup.topdir) IN
    \E i \in 1..Len(findup.targets), j \in 1..Len(dirs) :
       <<dirs[j], findup.targets[i]>> \in findup.exists

\* C17 (as claimed): findup with at least one target exits with 0 when some
\* target exists in a directory from the current one upward to topdir, and
\* with 1 only when none does.
C17_FindupExitStatus ==
  (findup.pc = "exit" /\ ~findup.help /\ Len(findup.targets) >= 1) =>
     findup.status = IF FindupSomeTargetExists THEN <<0>> ELSE <<1>>

=============================================================================
